---- MODULE Spec2Model ----
(***************************************************************************)
(* Request execution and task polling of the ulroy client library.         *)
(*                                                                         *)
(* One client (UlroyClient or AsyncUlroyClient, chosen by `mode`) owns a   *)
(* transport `_client`.  Logical calls run on it concurrently: direct      *)
(* requests (_request), the task pollers of helpers.py                     *)
(* (poll_task_status_sync / poll_task_status_async) and the task helpers   *)
(* of the helpers package (wait_for_completion).  A call moves only at its *)
(* suspension points: the network call and the inter-poll sleep; the code  *)
(* between two suspension points is one step.                              *)
(***************************************************************************)
EXTENDS Integers, Sequences, FiniteSets, TLC

VARIABLES
    mode,         \* "sync": UlroyClient, "async": AsyncUlroyClient
    max_retries,  \* BaseClient.max_retries
    _client,      \* the client's _client attribute: "httpx" or "None"
    is_closed,    \* the httpx client's own closed state
    closing,      \* the caller that is inside close(), between the two statements
    now,          \* wall clock
    call,         \* the logical calls in flight on the client
    api_key,      \* BaseClient.api_key
    base_url,     \* BaseClient.base_url
    _headers,     \* BaseClient._headers
    returned,     \* the latest call of a BaseClient method: its argument and
                  \* what it returned or raised
    block         \* where the caller is with respect to a `with client:`
                  \* block: "none" (no block), "inside", "exiting", "exited"

vars == <<mode, max_retries, _client, is_closed, closing, now, call,
          api_key, base_url, _headers, returned, block>>

\* the part of the state the request loop and the pollers leave alone
base == <<api_key, base_url, _headers, returned, block>>

(***************************************************************************)
(* Bounds of the model.                                                    *)
(***************************************************************************)
MaxRetries == 2
MaxTime == 3
MaxFetches == 3
MaxLen == 3

Calls == {"c1", "c2"}
\* the calls that may be a polling wait; the others are direct requests
Waiters == {"c1"}
Timeouts == {2}
PollIntervals == {1}

(***************************************************************************)
(* Values: what a call returns or raises.                                  *)
(***************************************************************************)
NoTask == [status |-> "-", error |-> "-"]
Task(s, e) == [status |-> s, error |-> e]

Ret(t) == [type |-> "return", code |-> 0, msg |-> "", task |-> t]
Exc(ty, code, m) == [type |-> ty, code |-> code, msg |-> m, task |-> NoTask]
None == [type |-> "None", code |-> 0, msg |-> "", task |-> NoTask]

ClientClosedError == Exc("RuntimeError", 0, "Client is closed")
TransportClosedError == Exc("RuntimeError", 0, "Cannot send a request, as the client has been closed.")
NoneTypeError == Exc("AttributeError", 0, "'NoneType' object has no attribute 'request'")
JSONDecodeError == Exc("ValueError", 0, "JSONDecodeError")
CancelledError == Exc("CancelledError", 0, "")

APIError(status_code, message) == Exc("APIError", status_code, message)
RequestError(name) == Exc("RequestError", 0, name)

(***************************************************************************)
(* BaseClient: construction, _build_url and _get_headers.  An address or a *)
(* path is the sequence of its characters.                                 *)
(***************************************************************************)
Chars == {"/", "a"}

RECURSIVE Strings(_)
Strings(n) ==
    IF n = 0 THEN {<<>>}
    ELSE LET shorter == Strings(n - 1) IN
         shorter \cup { Append(str, ch) : str \in {t \in shorter : Len(t) = n - 1},
                                           ch \in Chars }

\* str.rstrip("/")
RECURSIVE rstrip(_)
rstrip(str) ==
    IF str # <<>> /\ str[Len(str)] = "/"
    THEN rstrip(SubSeq(str, 1, Len(str) - 1))
    ELSE str

RECURSIVE lstrip(_)
\* str.lstrip("/")
lstrip(str) ==
    IF str # <<>> /\ Head(str) = "/" THEN lstrip(Tail(str)) ELSE str

ApiKeys == {"k1", "k2"}

\* f"Bearer {api_key}"
Bearer(key) == "Bearer " \o key

\* the dict literal of __init__
DefaultHeaders(key) ==
    [h \in {"Authorization", "Content-Type", "Accept"} |->
        IF h = "Authorization" THEN Bearer(key) ELSE "application/json"]

\* BaseClient.__init__
BaseClient(key, url) ==
    /\ api_key = key
    /\ base_url = rstrip(url)
    /\ _headers = DefaultHeaders(key)
    /\ returned = [op |-> "__init__", arg |-> url, value |-> None]

\* additional_headers: None, or a dict (a function from its keys)
NoHeaders == [is_none |-> TRUE, items |-> <<>>]
Headers(items) == [is_none |-> FALSE, items |-> items]

\* `if additional_headers:` - None and the empty dict are false
Truthy(additional_headers) ==
    ~additional_headers.is_none /\ DOMAIN additional_headers.items # {}

\* dict.update
Update(headers, items) ==
    [h \in DOMAIN headers \cup DOMAIN items |->
        IF h \in DOMAIN items THEN items[h] ELSE headers[h]]

\* mutant: the stored dict itself is updated and returned
Copy_Alias(additional_headers) ==
    IF Truthy(additional_headers)
    THEN Update(_headers, additional_headers.items)
    ELSE _headers

\* self._headers after headers = self._headers.copy() and headers.update(...)
Copy(additional_headers) ==
    _headers

\* BaseClient._get_headers
_get_headers(additional_headers) ==
    IF Truthy(additional_headers)
    THEN Update(_headers, additional_headers.items)
    ELSE _headers

\* mutant: one leading slash of the path is removed, not all of them
_build_url_StripOnce(endpoint) ==
    base_url \o <<"/">>
        \o (IF endpoint # <<>> /\ Head(endpoint) = "/" THEN Tail(endpoint)
            ELSE endpoint)

\* f"{self.base_url}/{endpoint.lstrip('/')}"
_build_url(endpoint) ==
    base_url \o <<"/">> \o lstrip(endpoint)

(***************************************************************************)
(* What the server and the network can answer to one attempt.              *)
(***************************************************************************)
\* a body is its text and what response.json() makes of it: json, whether the
\* text parses; object, whether the parsed value is a dict; data, the parsed
\* value
JsonBody(t) == [json |-> TRUE, object |-> TRUE, has_message |-> FALSE, message |-> "", text |-> "{...}", data |-> t]
JsonMessage(m) == [json |-> TRUE, object |-> TRUE, has_message |-> TRUE, message |-> m, text |-> "{...}", data |-> Task("message", m)]
JsonValue(s) == [json |-> TRUE, object |-> FALSE, has_message |-> FALSE, message |-> "", text |-> s, data |-> Task("value", s)]
TextBody(s) == [json |-> FALSE, object |-> FALSE, has_message |-> FALSE, message |-> "", text |-> s, data |-> NoTask]

Response(status_code, body) == [status_code |-> status_code, body |-> body]

\* the task listing a status fetch is answered with: the awaited task and its
\* status, or a listing without it ("absent")
TaskBodies ==
    { Task("pending", ""), Task("completed", ""),
      Task("failed", "disk full"), Task("absent", "") }

\* the parsed body of any other endpoint: an opaque structured value
Opaque == Task("data", "")

Responses(kind) ==
    { Response(200, JsonBody(t)) :
          t \in IF kind = "request" THEN {Opaque} ELSE TaskBodies }
    \cup { Response(200, TextBody("<html>")),
           Response(404, JsonMessage("not found")),
           Response(500, TextBody("boom")) }

RequestErrors == { RequestError("ConnectError") }

(***************************************************************************)
(* BaseClient._handle_response.                                            *)
(***************************************************************************)
NoGetError == Exc("AttributeError", 0, "object has no attribute 'get'")

\* mutant: the redirections count as errors too
IsError_From300(status_code) == status_code >= 300

\* if response.status_code >= 400
IsError(status_code) == status_code >= 400

\* message = error_data.get("message", "Unknown error"), and the handler of
\* ValueError: message = response.text or "Unknown error"
ErrorMessage(body) ==
    IF body.json
    THEN (IF body.has_message THEN body.message ELSE "Unknown error")
    ELSE (IF body.text # "" THEN body.text ELSE "Unknown error")

\* error_data.get raises AttributeError when the body parses to a value that
\* is no dict (a list, a string, a number, null); the handler catches
\* ValueError only
_handle_response(response) ==
    IF IsError(response.status_code)
    THEN IF response.body.json /\ ~response.body.object
         THEN NoGetError
         ELSE APIError(response.status_code, ErrorMessage(response.body))
    ELSE IF response.body.json THEN Ret(response.body.data) ELSE JSONDecodeError

\* What one attempt of the retry loop ends with: the transport raises a
\* RequestError, or a response arrives and is normalized.
AttemptOutcomes(kind) ==
    RequestErrors \cup { _handle_response(r) : r \in Responses(kind) }

\* mutant: a body that does not parse is retried as well
Retryable_ParseErrorsToo(v) ==
    v.type \in {"RequestError", "APIError", "ValueError"}

\* mutant: of the API errors only the server errors (5xx) are retried
Retryable_ServerErrorsOnly(v) ==
    v.type = "RequestError" \/ (v.type = "APIError" /\ v.code >= 500)

\* except (httpx.RequestError, APIError)
Retryable(v) == v.type \in {"RequestError", "APIError"}

(***************************************************************************)
(* A logical call.                                                         *)
(*   kind   "request" (_request), "poll" (poll_task_status_sync/_async),   *)
(*          "wait" (wait_for_completion)                                   *)
(*   pc     "idle", "await" (suspended in the network call),               *)
(*          "sleep" (suspended in the inter-poll sleep), "done"            *)
(* attempt and net belong to the _request frame the call is in: the loop   *)
(* index and the network calls issued; recv is the outcome of the latest   *)
(* network call.  task is the pollers' local: the task of the latest       *)
(* status fetch that returned one.  seen is no variable of the code: it    *)
(* counts the non-terminal statuses the wait has observed.                 *)
(***************************************************************************)
IdleCall ==
    [ kind |-> "none", pc |-> "idle",
      attempt |-> 0, net |-> 0, recv |-> None,
      timeout |-> 0, poll_interval |-> 0, raise_on_error |-> FALSE,
      start_time |-> 0, last_error |-> None, fetches |-> 0, wake |-> 0,
      task |-> NoTask, seen |-> 0,
      res |-> None ]

\* return / raise out of the logical call: its frames and locals are gone,
\* but for what the properties below look at
Finish(cr, v) ==
    [cr EXCEPT !.pc = "done", !.res = v,
               !.attempt = 0, !.start_time = 0, !.wake = 0,
               !.timeout = 0, !.poll_interval = 0,
               !.net = IF cr.kind = "request" THEN @ ELSE 0]

(***************************************************************************)
(* Task pollers: what they do with the outcome of one status fetch.        *)
(***************************************************************************)
TimeoutError == Exc("TimeoutError", 0, "did not complete")
TaskNotFound == Exc("ValueError", 0, "Task not found")
TaskFailed(error_msg) == Exc("Exception", 0, error_msg)
NotSubscriptable == Exc("TypeError", 0, "'NoneType' object is not subscriptable")
ValidationError == Exc("ValidationError", 0, "TaskStatus")

\* TaskStatus(**task): the model keeps id, status, progress, result
TaskStatus(task) == Ret(Task(task.status, "-"))

\* task.get('error', 'Unknown error'): "" stands for a task without the key
ErrorMsg(task) == IF task.error = "" THEN "Unknown error" ELSE task.error

Terminal(status) == status \in {"completed", "failed"}

\* time.time() - start_time > timeout
TimedOut(cr) == now - cr.start_time > cr.timeout

\* sleep(poll_interval); the _request frame of the fetch is gone
Sleep(cr) ==
    [cr EXCEPT !.pc = "sleep", !.wake = now + cr.poll_interval,
               !.attempt = 0, !.net = 0]

\* task = next(t for t in tasks if t['id'] == task_id): the wait has the
\* status of its task
Observe(cr, task) ==
    [cr EXCEPT !.task = task,
               !.seen = IF Terminal(task.status) THEN @ ELSE @ + 1]

\* poll_task_status_sync, lines 97-112, given what client.task.list_tasks() gave
poll_task_status_sync(cr, v) ==
    IF v.type = "None" THEN Finish(cr, NotSubscriptable)
    ELSE IF v.type # "return" THEN Finish(cr, v)
    ELSE IF v.task.status = "absent" THEN Finish(cr, TaskNotFound)
    ELSE LET got == Observe(cr, v.task) IN
         IF Terminal(got.task.status)
         THEN IF got.task.status = "failed" /\ got.raise_on_error
              THEN Finish(got, TaskFailed(ErrorMsg(got.task)))
              ELSE Finish(got, TaskStatus(got.task))
         ELSE Sleep(got)

\* poll_task_status_async, lines 178-182: except Exception as e
PreferLastError(cr, e) == IF cr.last_error # None THEN cr.last_error ELSE e

\* mutant: the first transient failure is the one kept
Remember_First(cr, e) ==
    [cr EXCEPT !.last_error = IF @ = None THEN e ELSE @]

\* last_error = e
Remember(cr, e) ==
    [cr EXCEPT !.last_error = e]

\* poll_task_status_async, lines 149-182, given what client.task.list_tasks() gave
poll_task_status_async(cr, v) ==
    IF v.type = "None" THEN Finish(cr, PreferLastError(cr, NotSubscriptable))
    ELSE IF Retryable(v) THEN Sleep(Remember(cr, v))
    ELSE IF v.type # "return" THEN Finish(cr, PreferLastError(cr, v))
    ELSE IF v.task.status = "absent" THEN Finish(cr, PreferLastError(cr, TaskNotFound))
    ELSE LET got == Observe(cr, v.task) IN
         IF Terminal(got.task.status)
         THEN IF got.task.status = "failed" /\ got.raise_on_error
              THEN Finish(got, PreferLastError(got, TaskFailed(ErrorMsg(got.task))))
              ELSE Finish(got, TaskStatus(got.task))
         ELSE Sleep(got)

\* wait_for_completion (helpers package, sync and async alike), given what
\* client.get("/tasks/{task_id}") gave
wait_for_completion(cr, v) ==
    IF v.type = "None" THEN Finish(cr, NotSubscriptable)
    ELSE IF v.type # "return" THEN Finish(cr, v)
    ELSE IF v.task.status = "absent" THEN Finish(cr, ValidationError)
    ELSE LET got == Observe(cr, v.task) IN
         IF Terminal(got.task.status) THEN Finish(got, TaskStatus(got.task))
         ELSE IF TimedOut(got) THEN Finish(got, TimeoutError)
         ELSE Sleep(got)

\* the poller of calling convention m, given the outcome of a status fetch
OnFetched(m, cr, v) ==
    IF m = "sync" THEN poll_task_status_sync(cr, v)
    ELSE poll_task_status_async(cr, v)

\* the poller of calling convention m at the top of its loop, timeout exceeded:
\* helpers.py line 94, and lines 147 and 178-182
OnTimeout(m, cr) ==
    IF m = "sync" THEN Finish(cr, TimeoutError)
    ELSE Finish(cr, PreferLastError(cr, TimeoutError))

\* where the value of a finished _request goes
Continue(cr, v) ==
    CASE cr.kind = "request" -> Finish(cr, v)
      [] cr.kind = "poll" -> OnFetched(mode, cr, v)
      [] cr.kind = "wait" -> wait_for_completion(cr, v)

(***************************************************************************)
(* UlroyClient._request / AsyncUlroyClient._request.                       *)
(***************************************************************************)
\* for attempt in range(self.max_retries)
InRange(attempt) == attempt < max_retries

\* mutant: the final attempt is recognised one iteration late
IsLastAttempt_OffByOne(attempt) == attempt = max_retries

\* if attempt == self.max_retries - 1: raise
IsLastAttempt(attempt) == attempt = max_retries - 1

\* mutant: the closed check is missing
ClientIsClosed_Unchecked == FALSE

\* if not hasattr(self, '_client') or self._client is None
ClientIsClosed == _client = "None"

\* self._client.request(...) of iteration `attempt`: the call is suspended
\* in the network call, or the statement raises before anything is sent
Attempt(cr, attempt) ==
    IF ~InRange(attempt) THEN Continue(cr, None)
    ELSE IF _client = "None" THEN Continue(cr, NoneTypeError)
    ELSE IF is_closed THEN Continue(cr, TransportClosedError)
    ELSE [cr EXCEPT !.pc = "await", !.attempt = attempt, !.net = @ + 1]

\* entry of _request up to the first network call
_request(cr) ==
    IF ClientIsClosed THEN Continue(cr, ClientClosedError)
    ELSE Attempt([cr EXCEPT !.net = 0, !.recv = None], 0)

\* mutant: the loop goes on after a response that normalizes cleanly
Received_RetryAfterSuccess(cr, v) ==
    LET got == [cr EXCEPT !.recv = v] IN
    IF (Retryable(v) \/ v.type = "return") /\ ~IsLastAttempt(cr.attempt)
    THEN Attempt(got, cr.attempt + 1)
    ELSE Continue(got, v)

\* mutant: the failure of the attempt before the last is the one raised
Received_RaiseEarlier(cr, v) ==
    LET got == [cr EXCEPT !.recv = v] IN
    IF Retryable(v) /\ ~IsLastAttempt(cr.attempt)
    THEN Attempt(got, cr.attempt + 1)
    ELSE Continue(got, IF Retryable(v) /\ cr.recv # None THEN cr.recv ELSE v)

\* the network call of iteration cr.attempt ended with v
Received(cr, v) ==
    LET got == [cr EXCEPT !.recv = v] IN
    IF Retryable(v) /\ ~IsLastAttempt(cr.attempt)
    THEN Attempt(got, cr.attempt + 1)
    ELSE Continue(got, v)

(***************************************************************************)
(* One iteration of a polling loop up to its first suspension point.       *)
(***************************************************************************)
\* mutant: the status is fetched a second time in the same iteration
Fetch_Twice(cr) ==
    _request([cr EXCEPT !.fetches = @ + 2])

\* client.task.list_tasks() / get_status(task_id)
Fetch(cr) ==
    _request([cr EXCEPT !.fetches = @ + 1])

\* mutant: a poller that finds the timeout exceeded sleeps once more
Iterate_SleepOnTimeout(cr) ==
    CASE cr.kind = "poll" ->
            IF TimedOut(cr) THEN Sleep(cr) ELSE Fetch(cr)
      [] cr.kind = "wait" -> Fetch(cr)

\* the top of the loop: `while True:` up to the status fetch
Iterate(cr) ==
    CASE cr.kind = "poll" ->
            IF TimedOut(cr) THEN OnTimeout(mode, cr) ELSE Fetch(cr)
      [] cr.kind = "wait" -> Fetch(cr)

(***************************************************************************)
(* The steps of the system.                                                *)
(***************************************************************************)
Exits(old, new) == old.pc # "done" /\ new.pc = "done"

\* poll_task_status_async, lines 183-189: the finally clause, run on every
\* exit of the asynchronous poller; httpx marks the client closed, the
\* client's _client attribute stays as it is
Finally(m, old, new) ==
    IF m = "async" /\ new.kind = "poll" /\ Exits(old, new) /\ _client # "None"
    THEN TRUE
    ELSE is_closed

Step(c, new) ==
    /\ call' = [call EXCEPT ![c] = new]
    /\ is_closed' = Finally(mode, call[c], new)
    /\ UNCHANGED <<base, mode, max_retries, _client, closing, now>>

Fresh(kind) ==
    [IdleCall EXCEPT !.kind = kind, !.start_time = now]

\* client.get / post / put / delete
StartRequest(c) ==
    /\ call[c].pc = "idle"
    /\ Step(c, _request(Fresh("request")))

\* poll_task_status_sync / poll_task_status_async
StartPoll(c) ==
    /\ call[c].pc = "idle"
    /\ \E t \in Timeouts, p \in PollIntervals, r \in BOOLEAN :
          Step(c, Iterate([Fresh("poll") EXCEPT !.timeout = t,
                                                !.poll_interval = p,
                                                !.raise_on_error = r]))

\* client.task.wait_for_completion
StartWait(c) ==
    /\ call[c].pc = "idle"
    /\ \E t \in Timeouts, p \in PollIntervals :
          Step(c, Iterate([Fresh("wait") EXCEPT !.timeout = t,
                                                !.poll_interval = p]))

\* the network call of the current attempt ends
Receive(c) ==
    /\ call[c].pc = "await"
    /\ \E v \in AttemptOutcomes(call[c].kind) : Step(c, Received(call[c], v))

\* the inter-poll sleep ends
Wake(c) ==
    /\ call[c].pc = "sleep"
    /\ now >= call[c].wake
    /\ call[c].fetches < MaxFetches
    /\ Step(c, Iterate(call[c]))

\* mutant: the cancellation goes through the handler of the other exceptions
Cancelled_AsOtherErrors(cr) ==
    Finish(cr, IF cr.kind = "poll" THEN PreferLastError(cr, CancelledError)
               ELSE CancelledError)

\* CancelledError raised at an await: the handlers of _request and the inner
\* handler of the poller (httpx.RequestError, APIError) do not catch it, the
\* poller's `except asyncio.CancelledError: raise` passes it on
Cancelled(cr) ==
    Finish(cr, CancelledError)

\* the caller cancels a suspended coroutine
Cancel(c) ==
    /\ mode = "async"
    /\ call[c].pc \in {"await", "sleep"}
    /\ Step(c, Cancelled(call[c]))

\* close(), first statement: self._client.close() / await self._client.aclose()
CloseBegin ==
    /\ ~closing
    /\ _client # "None"
    /\ is_closed' = TRUE
    /\ closing' = TRUE
    /\ UNCHANGED <<base, mode, max_retries, _client, now, call>>

\* close(), second statement: self._client = None
CloseEnd ==
    /\ closing
    /\ _client' = "None"
    /\ closing' = FALSE
    /\ UNCHANGED <<base, mode, max_retries, is_closed, now, call>>

\* close() on a client whose _client is None does nothing
CloseAgain ==
    /\ ~closing
    /\ _client = "None"
    /\ UNCHANGED vars

\* only the polling waits read the clock: it is modelled while one runs
Tick ==
    /\ now < MaxTime
    /\ \E c \in Waiters : call[c].pc \in {"await", "sleep"} /\ call[c].kind # "request"
    /\ now' = now + 1
    /\ UNCHANGED <<base, mode, max_retries, _client, is_closed, closing, call>>

Init ==
    /\ mode \in {"sync", "async"}
    /\ max_retries \in 0..MaxRetries
    /\ _client = "httpx"
    /\ is_closed = FALSE
    /\ closing = FALSE
    /\ now = 0
    /\ call = [c \in Calls |-> IdleCall]
    /\ BaseClient("k1", <<"a", "/">>)
    /\ block = "none"

Next ==
    \/ \E c \in Calls : StartRequest(c)
    \/ \E c \in Waiters : StartPoll(c)
    \/ \E c \in Waiters : StartWait(c)
    \/ \E c \in Calls : Receive(c)
    \/ \E c \in Calls : Wake(c)
    \/ \E c \in Calls : Cancel(c)
    \/ CloseBegin
    \/ CloseEnd
    \/ CloseAgain
    \/ Tick

Spec == Init /\ [][Next]_vars

(***************************************************************************)
(* The two pollers of helpers.py side by side: "c1" runs                    *)
(* poll_task_status_sync on a blocking client, "c2" poll_task_status_async *)
(* on a non-blocking one, with the same poll_interval, timeout and         *)
(* raise_on_error.  Each round both are at the top of their loop at the    *)
(* same time and their status fetch has the same outcome.                  *)
(***************************************************************************)
Convention == [c1 |-> "sync", c2 |-> "async"]

\* what client.task.list_tasks() returns or raises on an open client
FetchOutcomes == AttemptOutcomes("poll")

\* one pass of the loop of poller c of the pair: helpers.py 92-112 / 145-173
Round(c, v) ==
    LET cr == call[c] IN
    IF cr.pc = "done" THEN cr
    ELSE IF TimedOut(cr) THEN OnTimeout(Convention[c], cr)
    ELSE OnFetched(Convention[c], [cr EXCEPT !.fetches = @ + 1, !.recv = v], v)

PairInit ==
    /\ mode = "pair"
    /\ max_retries = 1
    /\ _client = "httpx"
    /\ is_closed = FALSE
    /\ closing = FALSE
    /\ now = 0
    /\ BaseClient("k1", <<"a", "/">>)
    /\ block = "none"
    /\ \E t \in Timeouts, p \in PollIntervals, r \in BOOLEAN :
          call = [c \in Calls |->
                    [Sleep([Fresh("poll") EXCEPT !.timeout = t, !.poll_interval = p,
                                                 !.raise_on_error = r])
                        EXCEPT !.wake = 0]]

PairRound ==
    /\ \E c \in Calls : call[c].pc = "sleep"
    /\ \A c \in Calls : call[c].pc = "sleep" =>
            now >= call[c].wake /\ call[c].fetches < MaxFetches
    /\ \E v \in FetchOutcomes :
          /\ call' = [c \in Calls |-> Round(c, v)]
          /\ is_closed' = Finally("async", call["c2"], Round("c2", v))
    /\ UNCHANGED <<base, mode, max_retries, _client, closing, now>>

PairTick ==
    /\ now < MaxTime
    /\ \E c \in Calls : call[c].pc = "sleep"
    /\ now' = now + 1
    /\ UNCHANGED <<base, mode, max_retries, _client, is_closed, closing, call>>

PairNext == PairRound \/ PairTick

SpecPair == PairInit /\ [][PairNext]_vars

(***************************************************************************)
(* A polling wait under fair scheduling: the network call of an attempt    *)
(* ends (httpx gives every attempt the client's timeout), the sleep ends   *)
(* when its time has come, and the wall clock advances.  The clock of the  *)
(* model stops at MaxTime, which stands for every later time as well: a    *)
(* sleep is over once the clock is there.                                  *)
(***************************************************************************)
\* the inter-poll sleep ends
WakeUp(c) ==
    /\ call[c].pc = "sleep"
    /\ now >= call[c].wake \/ now = MaxTime
    /\ Step(c, Iterate(call[c]))

LiveNext ==
    \/ \E c \in Waiters : StartPoll(c)
    \/ \E c \in Waiters : StartWait(c)
    \/ \E c \in Waiters : Receive(c)
    \/ \E c \in Waiters : WakeUp(c)
    \/ \E c \in Waiters : Cancel(c)
    \/ Tick
    \/ CloseBegin
    \/ CloseEnd

Fairness ==
    /\ WF_vars(Tick)
    /\ \A c \in Waiters : WF_vars(Receive(c)) /\ WF_vars(WakeUp(c))

SpecLive == Init /\ [][LiveNext]_vars /\ Fairness

(***************************************************************************)
(* The document facade of the helpers package: client.document.add and     *)
(* client.document.update, on the blocking client (sync_helpers.py) and on *)
(* the non-blocking one (async_helpers.py).                                *)
(***************************************************************************)
NotImplementedError == Exc("NotImplementedError", 0, "not supported")
KeyError == Exc("KeyError", 0, "'id'")

\* add(index_id, document)
document_add(m) ==
    IF m = "async" THEN Finish(Fresh("document"), NotImplementedError)
    ELSE _request(Fresh("request"))

\* update(index_id, document); has_id: the document has the key 'id'
document_update(m, has_id) ==
    IF m = "async" THEN Finish(Fresh("document"), NotImplementedError)
    ELSE IF ~has_id THEN Finish(Fresh("document"), KeyError)
    ELSE _request(Fresh("request"))

DocumentAdd(c) ==
    /\ call[c].pc = "idle"
    /\ Step(c, document_add(mode))

DocumentUpdate(c) ==
    /\ call[c].pc = "idle"
    /\ \E has_id \in BOOLEAN : Step(c, document_update(mode, has_id))

DocumentNext ==
    \/ \E c \in Calls : DocumentAdd(c)
    \/ \E c \in Calls : DocumentUpdate(c)
    \/ \E c \in Calls : Receive(c)
    \/ CloseBegin
    \/ CloseEnd
    \/ CloseAgain

SpecDocument == Init /\ [][DocumentNext]_vars

(***************************************************************************)
(* The client as a context manager, as test_apis.py uses it:               *)
(*     with client: <operations of the client and its facades>             *)
(* The body calls the client's request methods, its document facade and    *)
(* client.task.wait_for_completion; an operation that fails raises into    *)
(* the body, which may go on (a finally clause) or leave the block.        *)
(***************************************************************************)
\* mutant: the client is closed on a normal exit only
ClosesOnExit_NormalOnly(exc) == ~exc

\* __exit__ / __aexit__: self.close(), whatever exc_type is
ClosesOnExit(exc) == TRUE

\* __enter__ / __aenter__ has returned self
WithInit ==
    /\ mode \in {"sync", "async"}
    /\ max_retries \in 0..MaxRetries
    /\ _client = "httpx"
    /\ is_closed = FALSE
    /\ closing = FALSE
    /\ now = 0
    /\ call = [c \in Calls |-> IdleCall]
    /\ BaseClient("k1", <<"a", "/">>)
    /\ block = "inside"

\* the body is over: no operation is running; exc: it ended by an exception,
\* which one of its operations raised
BodyEnds(exc) ==
    /\ \A c \in Calls : call[c].pc \in {"idle", "done"}
    /\ exc => \E c \in Calls : call[c].pc = "done" /\ call[c].res.type # "return"

\* __exit__ up to the first statement of close()
ExitBegin ==
    /\ block = "inside"
    /\ \E exc \in BOOLEAN :
          /\ BodyEnds(exc)
          /\ IF ClosesOnExit(exc) /\ _client # "None"
             THEN is_closed' = TRUE /\ closing' = TRUE
             ELSE UNCHANGED <<is_closed, closing>>
    /\ block' = "exiting"
    /\ UNCHANGED <<mode, max_retries, _client, now, call,
                   api_key, base_url, _headers, returned>>

\* the second statement of close(), and __exit__ returns
ExitEnd ==
    /\ block = "exiting"
    /\ _client' = IF closing THEN "None" ELSE _client
    /\ closing' = FALSE
    /\ block' = "exited"
    /\ UNCHANGED <<mode, max_retries, is_closed, now, call,
                   api_key, base_url, _headers, returned>>

WithNext ==
    \/ \E c \in Calls : StartRequest(c)
    \/ \E c \in Calls : DocumentAdd(c)
    \/ \E c \in Calls : DocumentUpdate(c)
    \/ \E c \in Waiters : StartWait(c)
    \/ \E c \in Calls : Receive(c)
    \/ \E c \in Calls : Wake(c)
    \/ \E c \in Calls : Cancel(c)
    \/ Tick
    \/ ExitBegin
    \/ ExitEnd

SpecWith == WithInit /\ [][WithNext]_vars

(***************************************************************************)
(* The methods of BaseClient on their own: a client built from any key and *)
(* base address, its methods called with any argument, in any order.       *)
(***************************************************************************)
StatusCodes == {200, 204, 302, 399, 400, 404, 500}

Bodies ==
    { JsonBody(Opaque), JsonMessage("not found"), JsonMessage(""),
      JsonValue("[]"), TextBody("boom"), TextBody("") }

AllResponses == { Response(sc, b) : sc \in StatusCodes, b \in Bodies }

BaseInit ==
    /\ mode \in {"sync", "async"}
    /\ max_retries = 1
    /\ _client = "httpx"
    /\ is_closed = FALSE
    /\ closing = FALSE
    /\ now = 0
    /\ call = [c \in Calls |-> IdleCall]
    /\ \E key \in ApiKeys, url \in Strings(MaxLen) : BaseClient(key, url)
    /\ block = "none"

HandleResponse ==
    /\ \E r \in AllResponses :
          returned' = [op |-> "_handle_response", arg |-> r,
                       value |-> _handle_response(r)]
    /\ UNCHANGED <<mode, max_retries, _client, is_closed, closing, now, call,
                   api_key, base_url, _headers, block>>

BuildUrl ==
    /\ \E endpoint \in Strings(MaxLen) :
          returned' = [op |-> "_build_url", arg |-> endpoint,
                       value |-> _build_url(endpoint)]
    /\ UNCHANGED <<mode, max_retries, _client, is_closed, closing, now, call,
                   api_key, base_url, _headers, block>>

HeaderNames == {"Authorization", "Accept", "X-Trace"}

AdditionalHeaders ==
    {NoHeaders} \cup
    { Headers([h \in names |-> "caller"]) : names \in SUBSET HeaderNames }

GetHeaders ==
    /\ \E additional_headers \in AdditionalHeaders :
          /\ returned' = [op |-> "_get_headers", arg |-> additional_headers,
                          value |-> _get_headers(additional_headers)]
          /\ _headers' = Copy(additional_headers)
    /\ UNCHANGED <<mode, max_retries, _client, is_closed, closing, now, call,
                   api_key, base_url, block>>

BaseNext ==
    \/ HandleResponse
    \/ BuildUrl
    \/ GetHeaders

SpecBase == BaseInit /\ [][BaseNext]_vars

(***************************************************************************)
(* Properties.                                                             *)
(***************************************************************************)
Requests == {c \in Calls : call[c].kind = "request"}
Waits == {c \in Calls : call[c].kind \in {"poll", "wait"}}
Done(c) == call[c].pc = "done"

\* the client was open for every attempt and the caller did not cancel
Undisturbed(c) ==
    call[c].res \notin {ClientClosedError, NoneTypeError, TransportClosedError, CancelledError}

\* C1: on an open client with max_retries = N >= 1, a request whose every
\* attempt fails (transport failure or status >= 400) has issued exactly N
\* network calls when the failure reaches the caller, and no request ever
\* issues more than N; blocking and non-blocking client alike.
C1_ExactlyNAttempts ==
    max_retries >= 1 =>
        \A c \in Requests :
            /\ call[c].net <= max_retries
            /\ (Done(c) /\ Retryable(call[c].recv) /\ Undisturbed(c))
                   => (call[c].net = max_retries /\ Retryable(call[c].res))

C1_Witness ==
    \E c \in Requests :
        /\ Done(c) /\ call[c].res = RequestError("ConnectError")
        /\ call[c].net = max_retries /\ max_retries = MaxRetries

\* C2: the attempt of a request that succeeds ends the call: the call returns
\* the parsed body of that attempt, after k failed attempts exactly k+1
\* network calls have been issued, and a finished call never moves again.
C2_SuccessEndsTheCall ==
    [][\A c \in Calls :
         /\ (call[c].kind = "request" /\ call[c].pc = "await"
                 /\ call'[c].recv.type = "return")
              => /\ call'[c].pc = "done"
                 /\ call'[c].res = call'[c].recv
                 /\ call'[c].net = call[c].attempt + 1
                 /\ call[c].attempt < max_retries
         /\ (call[c].pc = "done" => call'[c] = call[c])]_vars

C2_Witness ==
    \E c \in Requests :
        Done(c) /\ call[c].res = Ret(Opaque) /\ call[c].net = 2

\* C3: when every attempt of a request has failed, the error the caller gets
\* is the failure of the last attempt, unchanged.
C3_LastFailurePropagates ==
    \A c \in Requests :
        (Done(c) /\ Retryable(call[c].res)) => call[c].res = call[c].recv

C3_Witness ==
    \E c \in Requests :
        /\ Done(c) /\ call[c].res = APIError(404, "not found")
        /\ call[c].net = MaxRetries

\* C4: an operation started on a client whose close() has completed fails
\* with the closed-client error in that very step, without a network call.
C4_ClosedClientFails ==
    [][\A c \in Calls :
         (call[c].pc = "idle" /\ call'[c].pc # "idle" /\ _client = "None")
             => /\ call'[c].pc = "done"
                /\ call'[c].res = ClientClosedError
                /\ call'[c].net = 0]_vars

C4_Witness ==
    /\ _client = "None"
    /\ \E c \in Waits : Done(c) /\ call[c].res = ClientClosedError
    /\ \E c \in Requests : Done(c) /\ call[c].res = ClientClosedError

\* C5: a polling wait never closes the client's transport: on every exit
\* path of the wait the transport is as open or closed as the step before.
C5_PollerLeavesTransport ==
    [][\A c \in Calls :
         ( /\ max_retries >= 1
           /\ call'[c].kind \in {"poll", "wait"} /\ Exits(call[c], call'[c]) )
             => is_closed' = is_closed]_vars

\* C6: cancelling a polling wait leaves the other call on the client alone:
\* a request that was in flight ends with what its last network call gave,
\* as it does when no wait is cancelled (close() was never called).
C6_CancelLeavesPeersAlone ==
    \A c \in Waits, d \in Requests :
        ( /\ max_retries >= 1
          /\ call[c].res = CancelledError
          /\ Done(d) /\ call[d].net >= 1 /\ call[d].res # CancelledError
          /\ _client = "httpx" /\ ~closing )
            => call[d].res = call[d].recv

\* C7: once the timeout of a polling wait is exceeded with no terminal status
\* seen, the next thing the wait does is fail with the timeout error, without
\* another status fetch.
C7_TimeoutBeforeFetch ==
    [][\A c \in Calls :
         ( /\ max_retries >= 1
           /\ call[c].pc = "sleep" /\ TimedOut(call[c])
           /\ call'[c] # call[c] /\ call'[c].res # CancelledError )
             => /\ call'[c].pc = "done"
                /\ call'[c].res = TimeoutError
                /\ call'[c].fetches = call[c].fetches]_vars

\* C8: a polling wait that sees the task failed ends there: with
\* raise_on_error it raises the task-failure error carrying the server's error
\* text, without it the failed status is returned; transient fetch failures
\* earlier in the wait change nothing.
C8_FailedTaskEndsWait ==
    \A c \in Waits :
        (max_retries >= 1 /\ call[c].task.status = "failed")
            => /\ Done(c)
               /\ call[c].res = IF call[c].raise_on_error
                                THEN TaskFailed(ErrorMsg(call[c].task))
                                ELSE TaskStatus(call[c].task)

\* C9: a status fetch that raises a transient failure (transport failure or
\* API error) does not end the polling wait, and a wait that then sees the
\* task completed returns that status.
C9_TransientFailureTolerated ==
    /\ [](\A c \in Waits :
            call[c].task.status = "completed"
                => Done(c) /\ call[c].res = TaskStatus(call[c].task))
    /\ [][\A c \in Calls :
            ( /\ max_retries >= 1
              /\ call'[c].kind \in {"poll", "wait"}
              /\ call[c].pc = "await" /\ call'[c].recv \in RequestErrors
              /\ call'[c].res # CancelledError )
                => call'[c].pc # "done"]_vars

\* C10: the blocking and the non-blocking poller, given the same status-fetch
\* outcomes at the same times and the same poll_interval, timeout and
\* raise_on_error, end alike: the same status returned or the same kind of
\* error, after the same number of status fetches.
C10_PollersAgree ==
    (call["c1"].pc = "done" /\ call["c2"].pc = "done")
        => /\ call["c1"].res.type = call["c2"].res.type
           /\ call["c1"].res.task = call["c2"].res.task
           /\ call["c1"].fetches = call["c2"].fetches

\* C11: a polling wait that observes n non-terminal statuses and then
\* completed, with no fetch failing in between, returns the completed status
\* after exactly n+1 status fetches, and a wait that has ended fetches no more.
C11_NPlusOneFetches ==
    /\ [](\A c \in Waits :
            ( /\ max_retries >= 1
              /\ Done(c) /\ call[c].res = TaskStatus(Task("completed", ""))
              /\ call[c].last_error = None )
                => call[c].fetches = call[c].seen + 1)
    /\ [][\A c \in Calls :
            Done(c) => call'[c].fetches = call[c].fetches]_vars

C11_Witness ==
    \E c \in Waits :
        /\ Done(c) /\ call[c].res = TaskStatus(Task("completed", ""))
        /\ call[c].seen = 2 /\ call[c].fetches = 3

\* C12: a non-blocking polling wait cancelled while suspended, in a status
\* fetch or in the sleep, ends in that step with the cancellation, whatever
\* transient failure it remembers, and does nothing afterwards: no fetch, no
\* other outcome.
C12_CancellationPropagates ==
    [][\A c \in Calls :
         /\ (call[c].kind \in {"poll", "wait"} /\ Cancel(c))
               => /\ call'[c].pc = "done"
                  /\ call'[c].res = CancelledError
                  /\ call'[c].fetches = call[c].fetches
         /\ (call[c].res = CancelledError) => call'[c] = call[c]]_vars

C12_Witness ==
    \E c \in Waits :
        /\ call[c].kind = "poll" /\ Done(c)
        /\ call[c].res = CancelledError
        /\ call[c].last_error \in RequestErrors

C14_ApiErrorRetried ==
    [][\A c \in Calls :
         ( /\ call[c].kind = "request" /\ call[c].pc = "await"
           /\ call'[c] # call[c] /\ call'[c].res # CancelledError
           /\ call'[c].recv.type \in {"APIError", "RequestError"}
           /\ _client = "httpx" /\ ~is_closed )
             => IF call[c].attempt + 1 < max_retries
                THEN /\ call'[c].pc = "await"
                     /\ call'[c].attempt = call[c].attempt + 1
                     /\ call'[c].net = call[c].net + 1
                ELSE /\ call'[c].pc = "done"
                     /\ call'[c].res = call'[c].recv
                     /\ call'[c].net = call[c].net]_vars

C14_Witness ==
    \E c \in Requests :
        /\ call[c].pc = "await" /\ call[c].attempt = 1
        /\ call[c].recv = APIError(404, "not found")

\* C15: document.add and document.update, on the blocking and on the
\* non-blocking client, open or closed, end at once with the
\* unsupported-operation error and send nothing.
C15_UnsupportedIsLocal ==
    \A c \in Calls :
        (max_retries >= 1 /\ call[c].pc # "idle")
            => /\ Done(c)
               /\ call[c].res = NotImplementedError
               /\ call[c].net = 0

\* C16: normalizing a response with status >= 400 raises an APIError with
\* that status code, and with the message field of the body when the body
\* parses, else the text of the body when there is any, else "Unknown error".
C16_ErrorNormalized ==
    ( /\ returned.op = "_handle_response"
      /\ returned.arg.status_code >= 400 )
        => LET body == returned.arg.body
               e == returned.value IN
           /\ e.type = "APIError"
           /\ e.code = returned.arg.status_code
           /\ (body.json /\ body.has_message) => e.msg = body.message
           /\ (~body.json /\ body.text # "") => e.msg = body.text
           /\ (~body.json /\ body.text = "") => e.msg = "Unknown error"

\* C17: normalizing a response with status < 400 whose body parses returns
\* the parsed body as it is; no APIError is raised.
C17_SuccessReturnsBody ==
    ( /\ returned.op = "_handle_response"
      /\ returned.arg.status_code < 400
      /\ returned.arg.body.json )
        => returned.value = Ret(returned.arg.body.data)

C17_Witness ==
    /\ returned.op = "_handle_response"
    /\ returned.arg = Response(302, JsonBody(Opaque))
    /\ returned.value = Ret(Opaque)

\* str is pre followed by slashes only / by post after slashes only
Slashes(str) == \A i \in 1..Len(str) : str[i] = "/"
TrailingStripped(str, pre) ==
    /\ pre = <<>> \/ pre[Len(pre)] # "/"
    /\ \E k \in 0..Len(str) :
          SubSeq(str, 1, k) = pre /\ Slashes(SubSeq(str, k + 1, Len(str)))
LeadingStripped(str, post) ==
    /\ post = <<>> \/ post[1] # "/"
    /\ \E k \in 0..Len(str) :
          Slashes(SubSeq(str, 1, k)) /\ SubSeq(str, k + 1, Len(str)) = post

\* C18: the client keeps the base address it was given without its trailing
\* slashes, however many, and the address built for a path is that base, one
\* slash, and the path without its leading slashes, however many.
C18_OneSeparatingSlash ==
    /\ returned.op = "__init__" => TrailingStripped(returned.arg, base_url)
    /\ returned.op = "_build_url" =>
          LET url == returned.value
              n == Len(base_url) IN
          /\ base_url = <<>> \/ base_url[n] # "/"
          /\ Len(url) > n
          /\ SubSeq(url, 1, n) = base_url
          /\ url[n + 1] = "/"
          /\ LeadingStripped(returned.arg, SubSeq(url, n + 2, Len(url)))

C18_Witness ==
    /\ returned.op = "_build_url"
    /\ returned.arg = <<"/", "/", "a">>
    /\ base_url = <<"a">>
    /\ returned.value = <<"a", "/", "a">>

\* C19: the headers of a request are the defaults made from the API key
\* (Authorization: Bearer <key>, Content-Type and Accept JSON) with the
\* caller's headers laid over them: the caller's value under each of the
\* caller's keys, the default under every other; the stored defaults stay as
\* they were built, whatever headers earlier calls were given.
C19_HeadersMerged ==
    /\ _headers = DefaultHeaders(api_key)
    /\ returned.op = "_get_headers" =>
          LET headers == returned.value
              given == IF returned.arg.is_none THEN <<>> ELSE returned.arg.items
              defaults == {"Authorization", "Content-Type", "Accept"} IN
          /\ DOMAIN headers = defaults \cup DOMAIN given
          /\ \A h \in DOMAIN given : headers[h] = given[h]
          /\ \A h \in defaults \ DOMAIN given :
                headers[h] = IF h = "Authorization" THEN "Bearer " \o api_key
                             ELSE "application/json"

C19_Witness ==
    /\ returned.op = "_get_headers"
    /\ ~returned.arg.is_none
    /\ DOMAIN returned.arg.items = {"Authorization", "X-Trace"}
    /\ returned.value["Authorization"] = "caller"
    /\ returned.value["Accept"] = "application/json"
    /\ _headers["Authorization"] = "Bearer " \o api_key

C21_ClosedCheckedEachAttempt ==
    [][\A c \in Calls :
         ( /\ call[c].kind = "request" /\ call[c].pc = "await"
           /\ call'[c] # call[c] /\ call'[c].res # CancelledError
           /\ Retryable(call'[c].recv)
           /\ call[c].attempt + 1 < max_retries
           /\ _client = "None" )
             => /\ call'[c].pc = "done"
                /\ call'[c].res = ClientClosedError
                /\ call'[c].net = call[c].net]_vars

\* C22: the transport is released by close() and by nothing else, and once
\* only: no other step changes whether it is open, close() never releases a
\* transport that is released already, and once it is released and no
\* close() is under way the closed check of the client says closed.
C22_ReleasedOnceByClose ==
    /\ [][(max_retries >= 1 /\ is_closed' # is_closed)
              => (~closing /\ closing')]_vars
    /\ [][(max_retries >= 1 /\ ~closing /\ closing') => ~is_closed]_vars
    /\ []((max_retries >= 1 /\ is_closed /\ ~closing) => ClientIsClosed)

\* C23: whatever max_retries is, a request that has ended has either raised
\* an error or returned the parsed body of an attempt it made; it never comes
\* back with nothing after making no attempt.
C23_NeverEmptyHanded ==
    \A c \in Requests :
        Done(c) => /\ call[c].res.type # "None"
                   /\ call[c].res.type = "return" => call[c].net >= 1

\* C24: a response with status < 400 whose body does not parse ends the
\* request there: the parse error, which is no APIError, reaches the caller
\* and no further attempt is made, whatever max_retries is.
C24_ParseErrorNotRetried ==
    [][\A c \in Calls :
         ( /\ call[c].kind = "request" /\ call[c].pc = "await"
           /\ call'[c] # call[c] /\ call'[c].res # CancelledError
           /\ call'[c].recv = JSONDecodeError )
             => /\ call'[c].pc = "done"
                /\ call'[c].res = JSONDecodeError
                /\ call'[c].res.type # "APIError"
                /\ call'[c].net = call[c].attempt + 1]_vars

C24_Witness ==
    \E c \in Requests :
        /\ max_retries = MaxRetries
        /\ Done(c) /\ call[c].res = JSONDecodeError /\ call[c].net = 1

\* C25: a polling wait that has started ends, whatever its status fetches
\* give: with the task completed or failed, by the timeout, by cancellation
\* or by another error; once ended it stays as it ended and fetches no more.
C25_WaitTerminates ==
    /\ \A c \in Waiters :
          (call[c].kind \in {"poll", "wait"} /\ call[c].pc \in {"await", "sleep"})
              ~> (call[c].pc = "done" /\ call[c].res.type # "None")
    /\ [][\A c \in Waiters : call[c].pc = "done" => call'[c] = call[c]]_vars

C25_Witness ==
    \E c \in Waiters :
        /\ call[c].kind = "poll" /\ call[c].pc = "done"
        /\ call[c].res = TimeoutError /\ call[c].fetches = 3

\* C26: a poller whose status fetch returns a listing without the awaited
\* task ends in that step with the task-not-found error, which is what the
\* caller gets, and fetches no more.
C26_TaskNotFoundEndsWait ==
    [][\A c \in Calls :
         ( /\ max_retries >= 1
           /\ call[c].kind = "poll" /\ call[c].pc = "await"
           /\ call'[c] # call[c]
           /\ call'[c].recv = Ret(Task("absent", "")) )
             => /\ call'[c].pc = "done"
                /\ call'[c].res = TaskNotFound
                /\ call'[c].fetches = call[c].fetches]_vars

====
